---- MODULE Spec2Model ----
(***************************************************************************)
(* A model of rj, a JSON (RFC 8259) parser and serializer written in Rust. *)
(*                                                                         *)
(* Text is a sequence of Unicode code points (a Rust &str read through     *)
(* chars()); a suffix &input[pos..] is a suffix of that sequence.  A panic *)
(* is a result with ok = FALSE that every caller passes on unchanged.      *)
(* A Value is a record tagged by t; an Object's HashMap is a function from *)
(* keys to Values, an Array's Vec a sequence.                              *)
(***************************************************************************)
EXTENDS Integers, Sequences, FiniteSets, TLC

VARIABLES doc, input, pc, res, text, res2, indent, out

vars == <<doc, input, pc, res, text, res2, indent, out>>

----------------------------------------------------------------------------
(* Characters the source names, as code points.                            *)

QUOTE == 34
BACKSLASH == 92
SLASH == 47
LBRACE == 123
RBRACE == 125
LBRACKET == 91
RBRACKET == 93
COLON == 58
COMMA == 44
MINUS == 45
DOT == 46
LOWER_E == 101
UPPER_E == 69
LOWER_B == 98
LOWER_F == 102
LOWER_N == 110
LOWER_R == 114
LOWER_T == 116
LOWER_U == 117
BACKSPACE == 8
FORMFEED == 12
LINEFEED == 10
CARRIAGERETURN == 13
TAB == 9

\* "false", "null", "true"
FALSE_LIT == <<102, 97, 108, 115, 101>>
NULL_LIT == <<110, 117, 108, 108>>
TRUE_LIT == <<116, 114, 117, 101>>
\* "inf", the text Rust prints for an infinite f64
INF_LIT == <<105, 110, 102>>

----------------------------------------------------------------------------
(* Slices.                                                                 *)

Drop(s, n) == SubSeq(s, n + 1, Len(s))

Take(s, n) == SubSeq(s, 1, n)

\* str::starts_with / strip_prefix(..).is_some()
StartsWith(s, p) == Len(s) >= Len(p) /\ Take(s, Len(p)) = p

StartsWithChar(s, c) == Len(s) >= 1 /\ s[1] = c

----------------------------------------------------------------------------
(* Values and results.                                                     *)

StringV(s) == [t |-> "String", s |-> s]

NumberV(n) == [t |-> "Number", n |-> n]

BooleanV(b) == [t |-> "Boolean", b |-> b]

NullV == [t |-> "Null"]

ObjectV(m) == [t |-> "Object", m |-> m]

ArrayV(a) == [t |-> "Array", a |-> a]

\* A production's return: the node and the unconsumed suffix.
Ok(v, rest) == [ok |-> TRUE, v |-> v, rest |-> rest, err |-> "none"]

\* A panic, named after its message.
Panic(e) == [ok |-> FALSE, v |-> NullV, rest |-> <<>>, err |-> e]

----------------------------------------------------------------------------
(* char predicates of the Rust standard library, as the parser uses them.  *)

\* char::is_whitespace: the Unicode White_Space property.
is_whitespace(c) ==
    \/ c \in 9..13
    \/ c = 32
    \/ c = 133
    \/ c = 160
    \/ c = 5760
    \/ c \in 8192..8202
    \/ c \in {8232, 8233, 8239, 8287, 12288}

is_ascii_digit(c) == c \in 48..57

\* char::to_digit(16): -1 stands for None.
to_digit16(c) ==
    IF c \in 48..57 THEN c - 48
    ELSE IF c \in 97..102 THEN c - 87
    ELSE IF c \in 65..70 THEN c - 55
    ELSE -1

\* is_scalar without the gap of the surrogates.
is_code_point(v) == v \in 0..1114111

\* char::from_u32(v).is_some(): v is a Unicode scalar value.
is_scalar(v) == v \in 0..1114111 /\ ~(v \in 55296..57343)

----------------------------------------------------------------------------
(* eat_whitespace                                                          *)

RECURSIVE WsLen(_)
WsLen(s) ==
    IF s # <<>> /\ is_whitespace(s[1]) THEN 1 + WsLen(Tail(s)) ELSE 0

eat_whitespace(s) == Drop(s, WsLen(s))

----------------------------------------------------------------------------
(* string                                                                  *)

\* SimpleEscape with the arms of \b and \f exchanged.
SimpleEscapeSwapped(e) ==
    IF e = QUOTE THEN QUOTE
    ELSE IF e = BACKSLASH THEN BACKSLASH
    ELSE IF e = SLASH THEN SLASH
    ELSE IF e = LOWER_B THEN FORMFEED
    ELSE IF e = LOWER_F THEN BACKSPACE
    ELSE IF e = LOWER_N THEN LINEFEED
    ELSE IF e = LOWER_R THEN CARRIAGERETURN
    ELSE IF e = LOWER_T THEN TAB
    ELSE -1

\* The one-character escapes of the match on escaped_char; -1: no such arm.
SimpleEscape(e) ==
    IF e = QUOTE THEN QUOTE
    ELSE IF e = BACKSLASH THEN BACKSLASH
    ELSE IF e = SLASH THEN SLASH
    ELSE IF e = LOWER_B THEN BACKSPACE
    ELSE IF e = LOWER_F THEN FORMFEED
    ELSE IF e = LOWER_N THEN LINEFEED
    ELSE IF e = LOWER_R THEN CARRIAGERETURN
    ELSE IF e = LOWER_T THEN TAB
    ELSE -1

\* hex_val = (hex_val << 4) | digit
HexShift(hex_val, digit) == hex_val * 16 + digit

\* for _ in 0..4 { match chars.next() ... }: k digits are still to read at i.
RECURSIVE HexLoop(_, _, _, _)
HexLoop(s, i, k, hex_val) ==
    IF k = 0 THEN [ok |-> TRUE, val |-> hex_val, err |-> "none"]
    ELSE IF i > Len(s) THEN [ok |-> FALSE, val |-> 0, err |-> "InvalidUnicodeEscape"]
    ELSE IF s[i] = QUOTE THEN [ok |-> FALSE, val |-> 0, err |-> "InvalidUnicodeEscape"]
    ELSE IF to_digit16(s[i]) = -1 THEN [ok |-> FALSE, val |-> 0, err |-> "InvalidHexDigit"]
    ELSE HexLoop(s, i + 1, k - 1, HexShift(hex_val, to_digit16(s[i])))

\* The control characters the last guarded arm of the match rejects.
IsRejectedControl(c) == c = LINEFEED \/ c = CARRIAGERETURN \/ c = TAB

\* The loop over chars: i is the index of the next character, acc is
\* parsed_string.
RECURSIVE StringLoop(_, _, _)
StringLoop(s, i, acc) ==
    IF i > Len(s) THEN Panic("UnterminatedString")
    ELSE IF s[i] = QUOTE THEN Ok(acc, Drop(s, i))
    ELSE IF s[i] = BACKSLASH THEN
        IF i + 1 > Len(s) THEN Panic("InvalidEscape")
        ELSE IF s[i + 1] = LOWER_U THEN
            LET h == HexLoop(s, i + 2, 4, 0)
            IN  IF ~h.ok THEN Panic(h.err)
                ELSE IF ~is_scalar(h.val) THEN Panic("InvalidScalar")
                ELSE StringLoop(s, i + 6, Append(acc, h.val))
        ELSE IF SimpleEscape(s[i + 1]) # -1
            THEN StringLoop(s, i + 2, Append(acc, SimpleEscape(s[i + 1])))
        ELSE Panic("InvalidEscape")
    ELSE IF IsRejectedControl(s[i]) THEN Panic("ControlChar")
    ELSE StringLoop(s, i + 1, Append(acc, s[i]))

\* The early return for an empty string: it looks for the closing quote after
\* eat_whitespace(cur_input), so whitespace inside the literal is skipped.
EmptyStringShortcut(cur_input) == StartsWithChar(eat_whitespace(cur_input), QUOTE)

string(s) ==
    IF ~StartsWithChar(eat_whitespace(s), QUOTE) THEN Panic("StringStart")
    ELSE IF EmptyStringShortcut(Tail(eat_whitespace(s)))
        THEN Ok(<<>>, Tail(eat_whitespace(Tail(eat_whitespace(s)))))
    ELSE IF s[1] # QUOTE THEN Panic("StringStart")
    ELSE StringLoop(s, 2, <<>>)

----------------------------------------------------------------------------
(* f64.  A finite f64 is held as the decimal it was read from:             *)
(* (-1)^neg * 0.d1 d2 .. dn * 10^(exp + n) with mant = <<d1, .., dn>>,     *)
(* i.e. mant * 10^exp, mant without leading or trailing zeros (<<>> for    *)
(* zero).  Two decimals of at most 15 digits are the same f64  *)
(* only if they are the same decimal, and the shortest decimal that reads  *)
(* back as the f64 nearest to such a decimal is that decimal, so reading   *)
(* and printing are exact on them.                                         *)

F64(neg, mant, exp) == [neg |-> neg, inf |-> FALSE, mant |-> mant, exp |-> exp]

F64Inf(neg) == [neg |-> neg, inf |-> TRUE, mant |-> <<>>, exp |-> 0]

RECURSIVE DigitRunLen(_)
DigitRunLen(s) ==
    IF s # <<>> /\ is_ascii_digit(s[1]) THEN 1 + DigitRunLen(Tail(s)) ELSE 0

RECURSIVE StripLeadingZeros(_)
StripLeadingZeros(d) ==
    IF d # <<>> /\ d[1] = 0 THEN StripLeadingZeros(Tail(d)) ELSE d

RECURSIVE TrailingZeros(_)
TrailingZeros(d) ==
    IF d # <<>> /\ d[Len(d)] = 0 THEN 1 + TrailingZeros(Take(d, Len(d) - 1)) ELSE 0

\* The decimal exponent, saturated: seven digits are far outside f64's range.
RECURSIVE DigitsToInt(_, _)
DigitsToInt(d, acc) ==
    IF d = <<>> THEN acc
    ELSE IF acc >= 1000000 THEN acc
    ELSE DigitsToInt(Tail(d), acc * 10 + d[1])

\* f64::MAX is 1.7976931348623157e308; a decimal from 1.7976931348623158e308 on
\* reads as infinity.
OverflowDigits == <<1, 7, 9, 7, 6, 9, 3, 1, 3, 4, 8, 6, 2, 3, 1, 5, 8>>

RECURSIVE DigitsGeq(_, _)
DigitsGeq(a, b) ==
    IF b = <<>> THEN TRUE
    ELSE IF a = <<>> THEN \A i \in 1..Len(b) : b[i] = 0
    ELSE IF a[1] # b[1] THEN a[1] > b[1]
    ELSE DigitsGeq(Tail(a), Tail(b))

\* The f64 nearest to mant * 10^exp, mant without leading or trailing zeros.
RoundF64(neg, mant, exp) ==
    IF mant = <<>> THEN F64(neg, <<>>, 0)
    ELSE IF exp + Len(mant) - 1 > 308 THEN F64Inf(neg)
    ELSE IF exp + Len(mant) - 1 = 308 /\ DigitsGeq(mant, OverflowDigits) THEN F64Inf(neg)
    ELSE IF exp + Len(mant) - 1 < -324 THEN F64(neg, <<>>, 0)
    ELSE F64(neg, mant, exp)

DropTrailingZeros(neg, lead, exp10) ==
    RoundF64(neg, Take(lead, Len(lead) - TrailingZeros(lead)), exp10 + TrailingZeros(lead))

\* The f64 nearest to digits * 10^exp10.
MakeF64(neg, digits, exp10) == DropTrailingZeros(neg, StripLeadingZeros(digits), exp10)

ToDigits(s) == [i \in 1..Len(s) |-> s[i] - 48]

\* <f64 as FromStr>::from_str on the text number() hands it:
\*   Number ::= [sign] ( Digit+ | Digit+ '.' Digit* | Digit* '.' Digit+ ) Exp?
\*   Exp    ::= ('e' | 'E') [sign] Digit+
\* (its "inf", "infinity" and "nan" texts hold letters number() never collects).
\* The text is read left to right, one part per operator (43 is '+').
F64Sign(s) ==
    IF s # <<>> /\ s[1] \in {43, MINUS}
        THEN [neg |-> s[1] = MINUS, rest |-> Tail(s)]
        ELSE [neg |-> FALSE, rest |-> s]

F64Int(p) ==
    [neg |-> p.neg,
     digits |-> ToDigits(Take(p.rest, DigitRunLen(p.rest))),
     rest |-> Drop(p.rest, DigitRunLen(p.rest))]

F64Frac(p) ==
    IF StartsWithChar(p.rest, DOT)
        THEN [neg |-> p.neg,
              digits |-> p.digits \o ToDigits(Take(Tail(p.rest), DigitRunLen(Tail(p.rest)))),
              nf |-> DigitRunLen(Tail(p.rest)),
              rest |-> Drop(p.rest, 1 + DigitRunLen(Tail(p.rest)))]
        ELSE [neg |-> p.neg, digits |-> p.digits, nf |-> 0, rest |-> p.rest]

F64ExpDigits(p, q) ==
    [neg |-> p.neg, digits |-> p.digits, nf |-> p.nf,
     hasExp |-> TRUE,
     eNeg |-> q.neg,
     eDigits |-> ToDigits(Take(q.rest, DigitRunLen(q.rest))),
     rest |-> Drop(q.rest, DigitRunLen(q.rest))]

F64Exp(p) ==
    IF p.rest # <<>> /\ p.rest[1] \in {LOWER_E, UPPER_E}
        THEN F64ExpDigits(p, F64Sign(Tail(p.rest)))
        ELSE [neg |-> p.neg, digits |-> p.digits, nf |-> p.nf,
              hasExp |-> FALSE, eNeg |-> FALSE, eDigits |-> <<>>, rest |-> p.rest]

F64Result(p) ==
    IF p.digits = <<>> THEN [ok |-> FALSE, n |-> F64(FALSE, <<>>, 0)]
    ELSE IF p.hasExp /\ p.eDigits = <<>> THEN [ok |-> FALSE, n |-> F64(FALSE, <<>>, 0)]
    ELSE IF p.rest # <<>> THEN [ok |-> FALSE, n |-> F64(FALSE, <<>>, 0)]
    ELSE IF p.eNeg
        THEN [ok |-> TRUE, n |-> MakeF64(p.neg, p.digits, 0 - DigitsToInt(p.eDigits, 0) - p.nf)]
    ELSE [ok |-> TRUE, n |-> MakeF64(p.neg, p.digits, DigitsToInt(p.eDigits, 0) - p.nf)]

f64_from_str(s) == F64Result(F64Exp(F64Frac(F64Int(F64Sign(s)))))

\* x * -1.0
F64Negate(x) == [x EXCEPT !.neg = ~x.neg]

\* f64's PartialEq: the two zeros are equal.
F64Eq(x, y) ==
    IF ~x.inf /\ ~y.inf /\ x.mant = <<>> /\ y.mant = <<>> THEN TRUE ELSE x = y

RECURSIVE Zeros(_)
Zeros(n) == IF n <= 0 THEN <<>> ELSE <<48>> \o Zeros(n - 1)

FromDigits(d) == [i \in 1..Len(d) |-> d[i] + 48]

\* <f64 as Display>::fmt: the shortest decimal that reads back, never in
\* exponent notation.
f64_to_string(x) ==
    LET sign == IF x.neg THEN <<MINUS>> ELSE <<>>
        n == Len(x.mant)
        body ==
            IF x.inf THEN INF_LIT
            ELSE IF n = 0 THEN <<48>>
            ELSE IF x.exp >= 0 THEN FromDigits(x.mant) \o Zeros(x.exp)
            ELSE IF n > 0 - x.exp
                THEN FromDigits(Take(x.mant, n + x.exp)) \o <<DOT>> \o FromDigits(Drop(x.mant, n + x.exp))
            ELSE <<48, DOT>> \o Zeros(0 - x.exp - n) \o FromDigits(x.mant)
    IN  sign \o body

----------------------------------------------------------------------------
(* number                                                                  *)

\* The arms of the match that push c onto buf.
IsNumberChar(c) == is_ascii_digit(c) \/ c = DOT \/ c = LOWER_E \/ c = UPPER_E

RECURSIVE NumberRunLen(_)
NumberRunLen(s) ==
    IF s # <<>> /\ IsNumberChar(s[1]) THEN 1 + NumberRunLen(Tail(s)) ELSE 0

\* number returning its input as the remainder.
number_stalled(s) == Ok(F64Inf(FALSE), s)

number(s) ==
    LET cur == eat_whitespace(s)
        minus == StartsWithChar(cur, MINUS)
        cur2 == IF minus THEN Tail(cur) ELSE cur
        buf == Take(cur2, NumberRunLen(cur2))
        rest == Drop(cur2, Len(buf))
        f == f64_from_str(buf)
    IN  IF ~f.ok THEN Panic("NumberParse")
        ELSE IF minus THEN Ok(F64Negate(f.n), rest)
        ELSE Ok(f.n, rest)

----------------------------------------------------------------------------
(* value, object, array                                                    *)

\* HashMap::insert: the key's earlier value, if any, is replaced.
MapInsert(m, k, v) == [x \in (DOMAIN m) \cup {k} |-> IF x = k THEN v ELSE m[x]]

EmptyMap == [x \in {} |-> NullV]

RECURSIVE value(_), object(_), ObjectLoop(_, _), array(_), ArrayLoop(_, _)

value(s) ==
    LET inp == eat_whitespace(s)
    IN  IF StartsWith(inp, FALSE_LIT) THEN Ok(BooleanV(FALSE), Drop(inp, Len(FALSE_LIT)))
        ELSE IF StartsWith(inp, NULL_LIT) THEN Ok(NullV, Drop(inp, Len(NULL_LIT)))
        ELSE IF StartsWith(inp, TRUE_LIT) THEN Ok(BooleanV(TRUE), Drop(inp, Len(TRUE_LIT)))
        ELSE IF StartsWithChar(inp, LBRACE) THEN
            LET r == object(inp)
            IN  IF r.ok THEN Ok(ObjectV(r.v), r.rest) ELSE r
        ELSE IF StartsWithChar(inp, LBRACKET) THEN
            LET r == array(inp)
            IN  IF r.ok THEN Ok(ArrayV(r.v), r.rest) ELSE r
        ELSE IF StartsWithChar(inp, QUOTE) THEN
            LET r == string(inp)
            IN  IF r.ok THEN Ok(StringV(r.v), r.rest) ELSE r
        ELSE IF StartsWithChar(inp, MINUS) \/ (inp # <<>> /\ is_ascii_digit(inp[1])) THEN
            LET r == number(inp)
            IN  IF r.ok THEN Ok(NumberV(r.v), r.rest) ELSE r
        ELSE Panic("UnexpectedToken")

\* One turn of the loop: cur is cur_input, obj the map so far.
ObjectLoop(cur, obj) ==
    LET k == string(eat_whitespace(cur))
    IN  IF ~k.ok THEN k
        ELSE IF ~StartsWithChar(eat_whitespace(k.rest), COLON) THEN Panic("ExpectedColon")
        ELSE
            LET v == value(Tail(eat_whitespace(k.rest)))
            IN  IF ~v.ok THEN v
                ELSE
                    LET obj2 == MapInsert(obj, k.v, v.v)
                        rest == eat_whitespace(v.rest)
                    IN  IF StartsWithChar(rest, COMMA) THEN ObjectLoop(Tail(rest), obj2)
                        ELSE IF StartsWithChar(rest, RBRACE) THEN Ok(obj2, Tail(rest))
                        ELSE Panic("ExpectedCommaOrBrace")

object(s) ==
    IF ~StartsWithChar(eat_whitespace(s), LBRACE) THEN Panic("ObjectStart")
    ELSE
        LET cur == Tail(eat_whitespace(s))
        IN  IF StartsWithChar(eat_whitespace(cur), RBRACE)
                THEN Ok(EmptyMap, Tail(eat_whitespace(cur)))
            ELSE ObjectLoop(cur, EmptyMap)

\* The while-let loop and the closing bracket: cur is cur_input.
ArrayLoop(cur, values) ==
    LET rest == eat_whitespace(cur)
    IN  IF StartsWithChar(rest, COMMA) THEN
            LET v == value(Tail(rest))
            IN  IF ~v.ok THEN v ELSE ArrayLoop(v.rest, Append(values, v.v))
        ELSE IF StartsWithChar(rest, RBRACKET) THEN Ok(values, Tail(rest))
        ELSE Panic("ArrayEnd")

array(s) ==
    IF ~StartsWithChar(eat_whitespace(s), LBRACKET) THEN Panic("ArrayStart")
    ELSE
        LET cur == Tail(eat_whitespace(s))
        IN  IF StartsWithChar(eat_whitespace(cur), RBRACKET)
                THEN Ok(<<>>, Tail(eat_whitespace(cur)))
            ELSE
                LET v == value(cur)
                IN  IF ~v.ok THEN v ELSE ArrayLoop(v.rest, <<v.v>>)

----------------------------------------------------------------------------
(* parse                                                                   *)

parse(s) ==
    LET r == value(s)
    IN  IF ~r.ok THEN r
        ELSE IF eat_whitespace(r.rest) # <<>> THEN Panic("TrailingContent")
        ELSE Ok(r.v, <<>>)

----------------------------------------------------------------------------
(* Structural equality (derive(PartialEq)): f64 equality on numbers.       *)

RECURSIVE ValueEq(_, _)
ValueEq(a, b) ==
    IF a.t # b.t THEN FALSE
    ELSE IF a.t = "Number" THEN F64Eq(a.n, b.n)
    ELSE IF a.t = "Array"
        THEN Len(a.a) = Len(b.a) /\ \A i \in 1..Len(a.a) : ValueEq(a.a[i], b.a[i])
    ELSE IF a.t = "Object"
        THEN DOMAIN a.m = DOMAIN b.m /\ \A k \in DOMAIN a.m : ValueEq(a.m[k], b.m[k])
    ELSE a = b

----------------------------------------------------------------------------
(* impl Display for Value (to_string, the compact form).  A HashMap is     *)
(* iterated in an unspecified order: fmt(v) is the set of the texts the    *)
(* iteration orders give.                                                  *)

\* "\"{x}\"": the payload between two quotes, as it is.
Quoted(x) == <<QUOTE>> \o x \o <<QUOTE>>

\* members.join(",") / elements.join(",") over every choice of parts[i]
RECURSIVE JoinAll(_)
JoinAll(parts) ==
    IF Len(parts) = 0 THEN {<<>>}
    ELSE IF Len(parts) = 1 THEN parts[1]
    ELSE {a \o <<COMMA>> \o b : a \in parts[1], b \in JoinAll(Tail(parts))}

\* The orders in which iter() may yield the keys.
RECURSIVE Orders(_)
Orders(keys) ==
    IF keys = {} THEN {<<>>}
    ELSE UNION {{<<k>> \o o : o \in Orders(keys \ {k})} : k \in keys}

RECURSIVE fmt(_)
fmt(v) ==
    IF v.t = "String" THEN {Quoted(v.s)}
    ELSE IF v.t = "Number" THEN {f64_to_string(v.n)}
    ELSE IF v.t = "Boolean" THEN {IF v.b THEN TRUE_LIT ELSE FALSE_LIT}
    ELSE IF v.t = "Null" THEN {NULL_LIT}
    ELSE IF v.t = "Object" THEN
        UNION {
            {<<LBRACE>> \o j \o <<RBRACE>> :
                j \in JoinAll([i \in 1..Len(o) |->
                        {Quoted(o[i]) \o <<COLON>> \o x : x \in fmt(v.m[o[i]])}])}
            : o \in Orders(DOMAIN v.m)}
    ELSE {<<LBRACKET>> \o j \o <<RBRACKET>> :
            j \in JoinAll([i \in 1..Len(v.a) |-> fmt(v.a[i])])}

----------------------------------------------------------------------------
(* The pretty form: format(value, indent) of generate.rs.  indent is a     *)
(* usize.  indent - 2 with indent < 2 is an arithmetic overflow: a build   *)
(* with overflow checks panics at the subtraction, a build without them    *)
(* wraps to a count near 2^64 and " ".repeat panics with a capacity        *)
(* overflow.  format(value, indent) is the set of the outcomes the         *)
(* iteration orders and the builds give: a text, or a panic.               *)

SPACE == 32

FmtOk(t) == [ok |-> TRUE, txt |-> t, err |-> "none"]

FmtPanic(e) == [ok |-> FALSE, txt |-> <<>>, err |-> e]

\* " ".repeat(n)
Spaces(n) == [i \in 1..n |-> SPACE]

\* " ".repeat(indent - 2)
ClosingIndent(ind) ==
    IF ind >= 2 THEN {FmtOk(Spaces(ind - 2))}
    ELSE {FmtPanic("SubtractOverflow"), FmtPanic("CapacityOverflow")}

\* ItemSeparator without the indentation after the newline.
ItemSeparatorFlush(ind) == <<COMMA, LINEFEED>>

\* The separator pushed when i < len - 1: ",\n" and the indentation.
ItemSeparator(ind) == <<COMMA, LINEFEED>> \o Spaces(ind)

\* One more item after those printed so far; a panic ends the loop.
AppendItem(sofar, item, i, ind) ==
    IF ~sofar.ok THEN sofar
    ELSE IF ~item.ok THEN item
    ELSE FmtOk(sofar.txt \o (IF i > 1 THEN ItemSeparator(ind) ELSE <<>>) \o item.txt)

\* The loop over the items, items[i] being the outcomes of item i: buf after
\* the loop, without the opening bracket and the first indentation.
RECURSIVE FormatItems(_, _, _)
FormatItems(items, n, ind) ==
    IF n = 0 THEN {FmtOk(<<>>)}
    ELSE {AppendItem(sofar, item, n, ind) :
            sofar \in FormatItems(items, n - 1, ind), item \in items[n]}

\* buf at the return: the opening bracket, "\n", the indentation, the items,
\* "\n", the closing indentation and the closing bracket.
CloseContainer(open, ind, body, closing, close) ==
    IF ~body.ok THEN body
    ELSE IF ~closing.ok THEN closing
    ELSE FmtOk(<<open, LINEFEED>> \o Spaces(ind) \o body.txt \o <<LINEFEED>>
                 \o closing.txt \o <<close>>)

\* "\"{k}\"" then ": " before the member's value.
MemberPrefix(k, o) ==
    IF ~o.ok THEN o ELSE FmtOk(Quoted(k) \o <<COLON, SPACE>> \o o.txt)

RECURSIVE format(_, _)
format(value_, ind) ==
    IF value_.t = "String" THEN {FmtOk(Quoted(value_.s))}
    ELSE IF value_.t = "Number" THEN {FmtOk(f64_to_string(value_.n))}
    ELSE IF value_.t = "Boolean" THEN {FmtOk(IF value_.b THEN TRUE_LIT ELSE FALSE_LIT)}
    ELSE IF value_.t = "Null" THEN {FmtOk(NULL_LIT)}
    ELSE IF value_.t = "Object" THEN
        UNION {
            {CloseContainer(LBRACE, ind, body, closing, RBRACE) :
                body \in FormatItems(
                            [i \in 1..Len(o) |->
                                {MemberPrefix(o[i], x) : x \in format(value_.m[o[i]], ind + 2)}],
                            Len(o), ind),
                closing \in ClosingIndent(ind)}
            : o \in Orders(DOMAIN value_.m)}
    ELSE
        {CloseContainer(LBRACKET, ind, body, closing, RBRACKET) :
            body \in FormatItems(
                        [i \in 1..Len(value_.a) |-> format(value_.a[i], ind + 2)],
                        Len(value_.a), ind),
            closing \in ClosingIndent(ind)}

----------------------------------------------------------------------------
(* The library in use: a text is parsed, the Value is printed in compact   *)
(* form, and the printed text is parsed again (Value::from(&str) is        *)
(* parse).  doc is the text in pieces, kept so that a property can name    *)
(* the piece it is about; input is the text itself.                        *)

RECURSIVE Flatten(_)
Flatten(pieces) ==
    IF pieces = <<>> THEN <<>> ELSE pieces[1] \o Flatten(Tail(pieces))

\* Every text over alphabet of at most n characters.
Texts(alphabet, n) == UNION {[1..k -> alphabet] : k \in 0..n}

NotRun == Panic("NotRun")

NotFormatted == FmtPanic("NotFormatted")

\* The indent the pretty form is asked for at the top level.
TopIndent == 2

\* The longest compact form the model prints (an f64 prints all its digits:
\* 1e300 is 301 characters).
MaxTextLen == 32

InitWith(docs) ==
    /\ doc \in docs
    /\ input = Flatten(doc)
    /\ pc = "start"
    /\ res = NotRun
    /\ text = <<>>
    /\ res2 = NotRun
    /\ indent = TopIndent
    /\ out = NotFormatted

Parse ==
    /\ pc = "start"
    /\ res' = parse(input)
    /\ pc' = "parsed"
    /\ UNCHANGED <<doc, input, text, res2, indent, out>>

Stringify ==
    /\ pc = "parsed"
    /\ res.ok
    /\ \E t \in fmt(res.v) :
        /\ Len(t) <= MaxTextLen
        /\ text' = t
    /\ pc' = "stringified"
    /\ UNCHANGED <<doc, input, res, res2, indent, out>>

Reparse ==
    /\ pc = "stringified"
    /\ res2' = parse(text)
    /\ pc' = "reparsed"
    /\ UNCHANGED <<doc, input, res, text, indent, out>>

Next == Parse \/ Stringify \/ Reparse

\* format(&value, indent) on the parsed Value.
Format ==
    /\ pc = "parsed"
    /\ res.ok
    /\ \E o \in format(res.v, indent) : out' = o
    /\ pc' = "formatted"
    /\ UNCHANGED <<doc, input, res, text, res2, indent>>

NextFormat == Parse \/ Format

----------------------------------------------------------------------------
(* Numerals: every text of at most MaxNumLen characters over the           *)
(* characters a numeral is written with.                                   *)

MaxNumLen == 5

\* - + 0 1 3 . e E
NumAlphabet == {45, 43, 48, 49, 51, 46, 101, 69}

NumDocs == {<<t>> : t \in Texts(NumAlphabet, MaxNumLen) \ {<<>>}}

InitNum == InitWith(NumDocs)

SpecNum == InitNum /\ [][Next]_vars

\* RFC 8259, section 2: ws = *( space / tab / line feed / carriage return )
IsJsonWs(c) == c \in {32, 9, 10, 13}

\* RFC 8259, section 6:
\*   number = [ minus ] int [ frac ] [ exp ]
\*   int = zero / ( digit1-9 *DIGIT )    frac = "." 1*DIGIT
\*   exp = e [ minus / plus ] 1*DIGIT
JsonInt(s) ==
    [ok |-> DigitRunLen(s) >= 1 /\ (s[1] = 48 => DigitRunLen(s) = 1),
     rest |-> Drop(s, DigitRunLen(s))]

JsonFrac(p) ==
    IF StartsWithChar(p.rest, 46)
        THEN [ok |-> p.ok /\ DigitRunLen(Tail(p.rest)) >= 1,
              rest |-> Drop(p.rest, 1 + DigitRunLen(Tail(p.rest)))]
        ELSE p

JsonExpDigits(p, e, signed) ==
    [ok |-> p.ok /\ DigitRunLen(e) >= 1 /\ Drop(e, DigitRunLen(e)) = <<>>,
     hasExp |-> TRUE,
     hasSign |-> signed]

JsonExp(p) ==
    IF p.rest # <<>> /\ p.rest[1] \in {101, 69}
        THEN IF Len(p.rest) >= 2 /\ p.rest[2] \in {43, 45}
                THEN JsonExpDigits(p, Drop(p.rest, 2), TRUE)
                ELSE JsonExpDigits(p, Drop(p.rest, 1), FALSE)
        ELSE [ok |-> p.ok /\ p.rest = <<>>, hasExp |-> FALSE, hasSign |-> FALSE]

JsonNumberParts(s) ==
    JsonExp(JsonFrac(JsonInt(IF StartsWithChar(s, 45) THEN Tail(s) ELSE s)))

IsJsonNumber(s) == JsonNumberParts(s).ok

\* "10e3", "10e-3", "10e+3"
Text_10e3 == <<49, 48, 101, 51>>
Text_10eMinus3 == <<49, 48, 101, 45, 51>>
Text_10ePlus3 == <<49, 48, 101, 43, 51>>

\* C1: parse is strict: a text that is not an RFC 8259 JSON document (here: a
\* text over the numeral characters that is not an RFC 8259 number, such as 01
\* or 1.) makes parse fail; it never returns a Value.
C1_ParseIsStrict ==
    pc = "parsed" /\ ~IsJsonNumber(input) => ~res.ok

\* C3: a numeral with an exponent marker (e or E), an optional single sign and
\* digits is accepted as one numeral: parse succeeds on it, and 10e3 is 10000,
\* 10e-3 is 0.01, 10e+3 is 10000.
C3_ExponentSignAccepted ==
    pc = "parsed" /\ IsJsonNumber(input) /\ JsonNumberParts(input).hasExp =>
        /\ res.ok
        /\ res.v.t = "Number"
        /\ input = Text_10e3 => res.v.n = F64(FALSE, <<1>>, 4)
        /\ input = Text_10eMinus3 => res.v.n = F64(FALSE, <<1>>, -2)
        /\ input = Text_10ePlus3 => res.v.n = F64(FALSE, <<1>>, 4)

----------------------------------------------------------------------------
(* Whitespace around one top-level value: doc = <<lead, value, trail>>.    *)

MaxLead == 1

MaxTrail == 2

\* space, tab, line feed, carriage return, form feed, vertical tab,
\* no-break space, x
PadChars == {32, 9, 10, 13, 12, 11, 160, 120}

\* {}  []  1  null  "a": none of them goes on into a character of PadChars
PadValues ==
    {<<123, 125>>, <<91, 93>>, <<49>>, <<110, 117, 108, 108>>, <<34, 97, 34>>}

PadDocs ==
    {<<l, v, t>> : l \in Texts(PadChars, MaxLead), v \in PadValues,
                   t \in Texts(PadChars, MaxTrail)}

InitPad == InitWith(PadDocs)

SpecPad == InitPad /\ [][Next]_vars

AllJsonWs(s) == \A i \in 1..Len(s) : IsJsonWs(s[i])

\* C2: once the top-level value is read, parse returns a Value only if nothing
\* but whitespace follows it; any other remainder makes it fail with the
\* trailing-content error.
C2_OnlyWhitespaceMayFollow ==
    pc = "parsed" /\ AllJsonWs(doc[1]) =>
        /\ res.ok <=> AllJsonWs(doc[3])
        /\ ~AllJsonWs(doc[3]) => res.err = "TrailingContent"

\* C7: the parser skips space, tab, line feed and carriage return only: any
\* other character before the value or after it is not skipped and makes
\* parse fail.
C7_OnlyFourWhitespaceCharacters ==
    pc = "parsed" /\ (~AllJsonWs(doc[1]) \/ ~AllJsonWs(doc[3])) => ~res.ok

----------------------------------------------------------------------------
(* String literals: doc = <<quote, piece, .., piece, quote>>, each piece a *)
(* character as it is or an escape.                                        *)

MaxStrPieces == 3

\* What each piece stands for in RFC 8259, section 7: ch is the character it
\* denotes.  plain: a, space.  control: a raw tab, line feed, carriage return.
\* escape: \" \\ \/ \b \f \n \r \t.  unicode: \u0041 \u00e9 \u0020.
\* invalid: \x \a.
StrPieceTable ==
    {[txt |-> <<97>>, kind |-> "plain", ch |-> 97],
     [txt |-> <<32>>, kind |-> "plain", ch |-> 32],
     [txt |-> <<9>>, kind |-> "control", ch |-> 9],
     [txt |-> <<10>>, kind |-> "control", ch |-> 10],
     [txt |-> <<13>>, kind |-> "control", ch |-> 13],
     [txt |-> <<92, 34>>, kind |-> "escape", ch |-> 34],
     [txt |-> <<92, 92>>, kind |-> "escape", ch |-> 92],
     [txt |-> <<92, 47>>, kind |-> "escape", ch |-> 47],
     [txt |-> <<92, 98>>, kind |-> "escape", ch |-> 8],
     [txt |-> <<92, 102>>, kind |-> "escape", ch |-> 12],
     [txt |-> <<92, 110>>, kind |-> "escape", ch |-> 10],
     [txt |-> <<92, 114>>, kind |-> "escape", ch |-> 13],
     [txt |-> <<92, 116>>, kind |-> "escape", ch |-> 9],
     [txt |-> <<92, 117, 48, 48, 52, 49>>, kind |-> "unicode", ch |-> 65],
     [txt |-> <<92, 117, 48, 48, 101, 57>>, kind |-> "unicode", ch |-> 233],
     [txt |-> <<92, 117, 48, 48, 50, 48>>, kind |-> "unicode", ch |-> 32],
     [txt |-> <<92, 120>>, kind |-> "invalid", ch |-> 0],
     [txt |-> <<92, 97>>, kind |-> "invalid", ch |-> 0]}

StrPieces == {r.txt : r \in StrPieceTable}

StrDocs ==
    {<<(<<34>>)>> \o b \o <<(<<34>>)>> :
        b \in UNION {[1..k -> StrPieces] : k \in 0..MaxStrPieces}}

InitStr == InitWith(StrDocs)

SpecStr == InitStr /\ [][Next]_vars

PieceOf(t) == CHOOSE r \in StrPieceTable : r.txt = t

\* The kinds and the denoted characters of the pieces between the quotes.
BodyKinds == [i \in 1..(Len(doc) - 2) |-> PieceOf(doc[i + 1]).kind]

BodyChars == [i \in 1..(Len(doc) - 2) |-> PieceOf(doc[i + 1]).ch]

HasKind(kinds) == \E i \in DOMAIN BodyKinds : BodyKinds[i] \in kinds

\* C6: a raw tab, line feed or carriage return anywhere between the quotes of
\* a string literal (first, middle, last, or its only content) makes parse
\* fail.
C6_RawControlCharacterRejected ==
    pc = "parsed" /\ HasKind({"control"}) => ~res.ok

\* C8: in a string literal with escapes, each of \" \\ \/ \b \f \n \r \t and
\* each \uXXXX adds exactly the one character it denotes, so the payload is
\* the sequence of the denoted characters; a backslash before any other
\* character makes parse fail, with the invalid-escape error when nothing
\* before it is in error.
C8_EscapeResolution ==
    pc = "parsed" /\ HasKind({"escape", "unicode", "invalid"}) =>
        /\ ~HasKind({"control", "invalid"}) => res.ok /\ res.v = StringV(BodyChars)
        /\ HasKind({"invalid"}) => ~res.ok
        /\ \A i \in DOMAIN BodyKinds :
             (BodyKinds[i] = "invalid" /\ \A j \in 1..(i - 1) : BodyKinds[j] # "control")
                => res.err = "InvalidEscape"

\* A literal with a one-character escape and a \u escape has been parsed.
C8_Witness ==
    pc = "parsed" /\ res.ok /\ HasKind({"escape"}) /\ HasKind({"unicode"})

----------------------------------------------------------------------------
(* Values of every kind, for the round trip through the compact form.      *)

MaxElems == 2

\* 1  -0  10.5  1e3  1e999  true  false  null
\* "a"  "a b"  ""  " "  "\""  "\\"  "\n"
\* []  {}  [1]  {"k":1}  {"k":1,"j":2}
RoundElems ==
    {<<49>>, <<45, 48>>, <<49, 48, 46, 53>>, <<49, 101, 51>>, <<49, 101, 57, 57, 57>>,
     TRUE_LIT, FALSE_LIT, NULL_LIT,
     <<34, 97, 34>>, <<34, 97, 32, 98, 34>>, <<34, 34>>,
     <<34, 92, 117, 48, 48, 50, 48, 34>>, <<34, 92, 34, 34>>, <<34, 92, 92, 34>>,
     <<34, 92, 110, 34>>,
     <<91, 93>>, <<123, 125>>, <<91, 49, 93>>, <<123, 34, 107, 34, 58, 49, 125>>,
     <<123, 34, 107, 34, 58, 49, 44, 34, 106, 34, 58, 50, 125>>}

\* "k"  " "  "\""
RoundKeys ==
    {<<34, 107, 34>>, <<34, 92, 117, 48, 48, 50, 48, 34>>, <<34, 92, 34, 34>>}

\* [ e1 , e2 .. ]
RECURSIVE Separated(_)
Separated(es) ==
    IF Len(es) <= 1 THEN es ELSE <<es[1], <<44>>>> \o Separated(Tail(es))

RoundDocs ==
    {<<e>> : e \in RoundElems}
    \cup {<<(<<91>>)>> \o Separated(es) \o <<(<<93>>)>> :
            es \in UNION {[1..k -> RoundElems] : k \in 0..MaxElems}}
    \cup {<<(<<123>>), k, <<58>>, e, <<125>>>> : k \in RoundKeys, e \in RoundElems}

InitRound == InitWith(RoundDocs)

SpecRound == InitRound /\ [][Next]_vars

\* No quote, backslash or control character (Unicode Cc).
NoSpecialCharacter(s) ==
    \A i \in 1..Len(s) : s[i] \notin {34, 92} /\ s[i] >= 32 /\ s[i] \notin 127..159

\* The values the compact round trip is stated for.
RECURSIVE InRoundTripClass(_)
InRoundTripClass(v) ==
    IF v.t = "String" THEN NoSpecialCharacter(v.s)
    ELSE IF v.t = "Number" THEN ~v.n.inf
    ELSE IF v.t = "Array" THEN \A i \in 1..Len(v.a) : InRoundTripClass(v.a[i])
    ELSE IF v.t = "Object"
        THEN /\ Cardinality(DOMAIN v.m) = 1
             /\ \A k \in DOMAIN v.m : NoSpecialCharacter(k) /\ InRoundTripClass(v.m[k])
    ELSE TRUE

\* C4: re-parse is the identity: for every Value v that parse produces,
\* parse(stringify(v)) succeeds and is structurally equal to v.
C4_ReparseIsIdentity ==
    pc = "reparsed" => res2.ok /\ ValueEq(res2.v, res.v)

\* C5: compact round trip: for an accepted text whose value is a single-key
\* object, an array, a string without special characters, a boolean, null or
\* a finite number, parse(stringify(parse(s))) succeeds and equals parse(s).
C5_CompactRoundTrip ==
    pc = "reparsed" /\ InRoundTripClass(res.v) => res2.ok /\ ValueEq(res2.v, res.v)

----------------------------------------------------------------------------
(* Objects and their delimiters:                                           *)
(* doc = <<"{", key, sep1, value, sep2, key, sep1, value, sep2, ..>>.      *)

MaxDelimMembers == 2

\* "a"
DelimKeys == {<<34, 97, 34>>}

\* :   space :   form-feed :   nothing   x
DelimSep1 == {<<58>>, <<32, 58>>, <<12, 58>>, <<>>, <<120>>}

\* 1   "b"
DelimValues == {<<49>>, <<34, 98, 34>>}

\* ,   }   space }   form-feed }   nothing   x
DelimSep2 == {<<44>>, <<125>>, <<32, 125>>, <<12, 125>>, <<>>, <<120>>}

DelimMembers ==
    {<<k, a, v, b>> : k \in DelimKeys, a \in DelimSep1, v \in DelimValues, b \in DelimSep2}

DelimDocs ==
    {<<(<<123>>)>> \o Flatten(ms) :
        ms \in UNION {[1..n -> DelimMembers] : n \in 0..MaxDelimMembers}}

InitDelim == InitWith(DelimDocs)

SpecDelim == InitDelim /\ [][Next]_vars

\* The first character of s that is not JSON whitespace; -1 when s has none.
RECURSIVE FirstNonWs(_)
FirstNonWs(s) ==
    IF s = <<>> THEN -1
    ELSE IF IsJsonWs(s[1]) THEN FirstNonWs(Tail(s))
    ELSE s[1]

DocMembers == (Len(doc) - 1) \div 4

\* What RFC 8259's object grammar makes of the text from member k on: the
\* failure the delimiters call for, "ok" for an object that closes at the end
\* of the text, "other" for a text in error elsewhere.
RECURSIVE DelimExpected(_)
DelimExpected(k) ==
    IF k > DocMembers THEN "other"
    ELSE IF FirstNonWs(doc[4 * k - 1]) # 58 THEN "ExpectedColon"
    ELSE IF FirstNonWs(doc[4 * k + 1]) = 44 THEN DelimExpected(k + 1)
    ELSE IF FirstNonWs(doc[4 * k + 1]) = 125
        THEN IF k = DocMembers THEN "ok" ELSE "other"
    ELSE "ExpectedCommaOrBrace"

\* C9: in an object, the next non-whitespace character after a key must be ':'
\* or parse fails with the expected-':' error, and the next non-whitespace
\* character after a member's value must be ',' or '}'; anything else, or the
\* end of the input, makes parse fail with the expected-',' -or-'}' error.
C9_ObjectDelimiters ==
    pc = "parsed" =>
        /\ DelimExpected(1) = "ExpectedColon" => ~res.ok /\ res.err = "ExpectedColon"
        /\ DelimExpected(1) = "ExpectedCommaOrBrace"
             => ~res.ok /\ res.err = "ExpectedCommaOrBrace"

----------------------------------------------------------------------------
(* Objects and their keys:                                                 *)
(* doc = <<"{", key, ":", value, ",", key, ":", value, .., "}">>.          *)

MaxKeyMembers == 3

\* A key's text and the key it denotes: "a", "a" (a again), "b", " ", "".
KeyTable ==
    {[txt |-> <<34, 97, 34>>, name |-> <<97>>],
     [txt |-> <<34, 92, 117, 48, 48, 54, 49, 34>>, name |-> <<97>>],
     [txt |-> <<34, 98, 34>>, name |-> <<98>>],
     [txt |-> <<34, 32, 34>>, name |-> <<32>>],
     [txt |-> <<34, 34>>, name |-> <<>>]}

\* A value's text and the Value it denotes: 1, 2, null.
ValTable ==
    {[txt |-> <<49>>, v |-> NumberV(F64(FALSE, <<1>>, 0))],
     [txt |-> <<50>>, v |-> NumberV(F64(FALSE, <<2>>, 0))],
     [txt |-> NULL_LIT, v |-> NullV]}

KeyMember(k, v, last) == <<k.txt, <<58>>, v.txt, IF last THEN <<125>> ELSE <<44>>>>

KeyDoc(ms) ==
    IF ms = <<>> THEN <<(<<123>>), <<125>>>>
    ELSE <<(<<123>>)>> \o
         Flatten([i \in 1..Len(ms) |-> KeyMember(ms[i][1], ms[i][2], i = Len(ms))])

KeyDocs ==
    {KeyDoc(ms) : ms \in UNION {[1..n -> KeyTable \X ValTable] : n \in 0..MaxKeyMembers}}

InitKeys == InitWith(KeyDocs)

SpecKeys == InitKeys /\ [][Next]_vars

\* The key and the Value member i of the text denotes.
DocKeyName(i) == (CHOOSE r \in KeyTable : r.txt = doc[4 * i - 2]).name

DocValue(i) == (CHOOSE r \in ValTable : r.txt = doc[4 * i]).v

\* The last member of the text with key name.
LastMember(name) ==
    CHOOSE i \in 1..DocMembers :
        DocKeyName(i) = name /\ \A j \in (i + 1)..DocMembers : DocKeyName(j) # name

\* C10: the parsed Object has as many members as the text has distinct
\* (unescaped) keys, and a key the text holds several times is mapped to the
\* value of its last occurrence.
C10_LastWriteWins ==
    pc = "parsed" =>
        /\ res.ok
        /\ res.v.t = "Object"
        /\ Cardinality(DOMAIN res.v.m) = Cardinality({DocKeyName(i) : i \in 1..DocMembers})
        /\ \A i, j \in 1..DocMembers :
             (i # j /\ DocKeyName(i) = DocKeyName(j)) =>
                /\ DocKeyName(i) \in DOMAIN res.v.m
                /\ res.v.m[DocKeyName(i)] = DocValue(LastMember(DocKeyName(i)))

----------------------------------------------------------------------------
(* The pretty form of parsed texts: a text is parsed and the Value is      *)
(* printed by format at a starting indent.                                 *)

\* The widest container built around the elements.
MaxFmtElems == 2

\* The largest starting indent.
MaxIndent == 3

\* 1  "a"  true  null  {}  []  [1]  {"k":1}  [[]]  [{}]  {"k":{}}  {"k":[]}
\* [1,[2,[3]]]  {"k":{"j":"v"}}  {"k":1,"j":2}  [[1,2],{"k":[true]}]
FmtElems ==
    {<<49>>,
     <<34, 97, 34>>,
     <<116, 114, 117, 101>>,
     <<110, 117, 108, 108>>,
     <<123, 125>>,
     <<91, 93>>,
     <<91, 49, 93>>,
     <<123, 34, 107, 34, 58, 49, 125>>,
     <<91, 91, 93, 93>>,
     <<91, 123, 125, 93>>,
     <<123, 34, 107, 34, 58, 123, 125, 125>>,
     <<123, 34, 107, 34, 58, 91, 93, 125>>,
     <<91, 49, 44, 91, 50, 44, 91, 51, 93, 93, 93>>,
     <<123, 34, 107, 34, 58, 123, 34, 106, 34, 58, 34, 118, 34, 125, 125>>,
     <<123, 34, 107, 34, 58, 49, 44, 34, 106, 34, 58, 50, 125>>,
     <<91, 91, 49, 44, 50, 93, 44, 123, 34, 107, 34, 58, 91, 116, 114, 117, 101, 93, 125, 93>>}

\* "p" "q" "r" ..: the key of member i.
FmtKey(i) == <<34, 111 + i, 34>>

\* "p" : e1 , "q" : e2 ..
RECURSIVE FmtMembers(_, _)
FmtMembers(es, i) ==
    IF i > Len(es) THEN <<>>
    ELSE <<FmtKey(i), <<58>>, es[i]>>
         \o (IF i < Len(es) THEN <<(<<44>>)>> ELSE <<>>)
         \o FmtMembers(es, i + 1)

FmtDocs ==
    {<<e>> : e \in FmtElems}
    \cup {<<(<<91>>)>> \o Separated(es) \o <<(<<93>>)>> :
            es \in UNION {[1..k -> FmtElems] : k \in 1..MaxFmtElems}}
    \cup {<<(<<123>>)>> \o FmtMembers(es, 1) \o <<(<<125>>)>> :
            es \in UNION {[1..k -> FmtElems] : k \in 1..MaxFmtElems}}

InitFormat ==
    /\ doc \in FmtDocs
    /\ input = Flatten(doc)
    /\ pc = "start"
    /\ res = NotRun
    /\ text = <<>>
    /\ res2 = NotRun
    /\ indent \in 0..MaxIndent
    /\ out = NotFormatted

SpecFormat == InitFormat /\ [][NextFormat]_vars

\* The Values directly inside a container, in some order.
Children(v) ==
    IF v.t = "Array" THEN v.a
    ELSE IF v.t = "Object"
        THEN [i \in 1..Cardinality(DOMAIN v.m) |->
                v.m[(CHOOSE o \in Orders(DOMAIN v.m) : TRUE)[i]]]
    ELSE <<>>

\* The number of empty containers of kind tag in v, v included.
RECURSIVE CountEmpty(_, _), CountEmptySeq(_, _)
CountEmptySeq(vs, tag) ==
    IF vs = <<>> THEN 0 ELSE CountEmpty(Head(vs), tag) + CountEmptySeq(Tail(vs), tag)

CountEmpty(v, tag) ==
    (IF v.t = tag /\ Children(v) = <<>> THEN 1 ELSE 0) + CountEmptySeq(Children(v), tag)

\* The number of places where a is directly followed by b in t.
CountAdjacent(t, a, b) ==
    Cardinality({i \in 1..(Len(t) - 1) : t[i] = a /\ t[i + 1] = b})

\* C11: the pretty form renders an empty object as exactly {} and an empty
\* array as exactly [], with nothing between the brackets, at every nesting
\* depth: the text has as many {} as the Value has empty objects, and as many
\* [] as it has empty arrays (no text here has a bracket inside a string).
C11_EmptyContainersCompact ==
    pc = "formatted" /\ out.ok =>
        /\ CountAdjacent(out.txt, LBRACE, RBRACE) = CountEmpty(res.v, "Object")
        /\ CountAdjacent(out.txt, LBRACKET, RBRACKET) = CountEmpty(res.v, "Array")

\* C13: format(value, indent) is total: for every Value and every indent from
\* 0 on it returns a string; indent - 2 and len - 1 never underflow.
C13_FormatIsTotal ==
    pc = "formatted" => out.ok

\* The lines of the items of a depth-k container, items[i] being the
\* renderings of item i: each item after a newline and 2*k spaces, a comma
\* after every item but the last.
RECURSIVE LayoutItems(_, _)
LayoutItems(items, k) ==
    IF items = <<>> THEN {<<>>}
    ELSE {<<LINEFEED>> \o Spaces(2 * k) \o h
            \o (IF Len(items) > 1 THEN <<COMMA>> ELSE <<>>) \o t :
            h \in items[1], t \in LayoutItems(Tail(items), k)}

\* The layout of v whose items are at depth k: the items' lines, then the
\* closing bracket after a newline and 2*(k-1) spaces; a member is
\* "key": value; a scalar is its compact form.
RECURSIVE Layout(_, _)
Layout(v, k) ==
    IF v.t = "Array" THEN
        {<<LBRACKET>> \o b \o <<LINEFEED>> \o Spaces(2 * (k - 1)) \o <<RBRACKET>> :
            b \in LayoutItems([i \in 1..Len(v.a) |-> Layout(v.a[i], k + 1)], k)}
    ELSE IF v.t = "Object" THEN
        UNION {
            {<<LBRACE>> \o b \o <<LINEFEED>> \o Spaces(2 * (k - 1)) \o <<RBRACE>> :
                b \in LayoutItems([i \in 1..Len(o) |->
                        {Quoted(o[i]) \o <<COLON, 32>> \o x :
                            x \in Layout(v.m[o[i]], k + 1)}], k)}
            : o \in Orders(DOMAIN v.m)}
    ELSE fmt(v)

\* C12: pretty layout of format(v, 2) for v built from non-empty arrays and
\* objects: every item of a depth-k container starts on its own line after
\* exactly 2*k spaces, the closing bracket of a depth-k container is on its
\* own line after exactly 2*(k-1) spaces, items are separated by a comma and
\* a newline with no comma after the last, and a member is "key": value.
C12_PrettyLayout ==
    (/\ pc = "formatted"
     /\ indent = 2
     /\ CountEmpty(res.v, "Object") = 0
     /\ CountEmpty(res.v, "Array") = 0)
        => out.ok /\ out.txt \in Layout(res.v, 1)

\* { "p": [1,[2,[3]]], "q": {"k":1,"j":2} } printed at indent 2: three
\* depths, arrays and objects, a container of several items.
C12_Witness ==
    /\ pc = "formatted"
    /\ indent = 2
    /\ out.ok
    /\ doc = <<(<<123>>), FmtKey(1), <<58>>, <<91, 49, 44, 91, 50, 44, 91, 51, 93, 93, 93>>, <<44>>,
               FmtKey(2), <<58>>, <<123, 34, 107, 34, 58, 49, 44, 34, 106, 34, 58, 50, 125>>, <<125>>>>

----------------------------------------------------------------------------
(* String literals with \u escapes around the surrogate range.             *)

\* The most pieces between the quotes.
MaxSurPieces == 3

\* plain: a.  scalar: \u0041 \ud7ff \uE000.
\* surrogate: \ud800 \uD83D (high), \udc00 \uDFFF (low).
SurPieceTable ==
    {[txt |-> <<97>>, kind |-> "plain", ch |-> 97],
     [txt |-> <<92, 117, 48, 48, 52, 49>>, kind |-> "scalar", ch |-> 65],
     [txt |-> <<92, 117, 100, 55, 102, 102>>, kind |-> "scalar", ch |-> 55295],
     [txt |-> <<92, 117, 69, 48, 48, 48>>, kind |-> "scalar", ch |-> 57344],
     [txt |-> <<92, 117, 100, 56, 48, 48>>, kind |-> "surrogate", ch |-> 55296],
     [txt |-> <<92, 117, 68, 56, 51, 68>>, kind |-> "surrogate", ch |-> 55357],
     [txt |-> <<92, 117, 100, 99, 48, 48>>, kind |-> "surrogate", ch |-> 56320],
     [txt |-> <<92, 117, 68, 70, 70, 70>>, kind |-> "surrogate", ch |-> 57343]}

SurDocs ==
    {<<(<<34>>)>> \o b \o <<(<<34>>)>> :
        b \in UNION {[1..k -> {r.txt : r \in SurPieceTable}] : k \in 0..MaxSurPieces}}

InitSur == InitWith(SurDocs)

SpecSur == InitSur /\ [][Next]_vars

SurPieceOf(t) == CHOOSE r \in SurPieceTable : r.txt = t

\* A piece between the quotes is an escape of a surrogate code point.
HasSurrogateEscape ==
    \E i \in 2..(Len(doc) - 1) : SurPieceOf(doc[i]).kind = "surrogate"

\* D800 to DFFF.
IsSurrogate(c) == c \in 55296..57343

\* C15: a \uXXXX escape of a surrogate code point (D800 to DFFF) makes parse
\* fail, alone or followed by a low-surrogate escape, and is never appended:
\* every String payload parse returns holds Unicode scalar values only.
C15_SurrogateEscapeRejected ==
    pc = "parsed" =>
        /\ HasSurrogateEscape => ~res.ok /\ res.err = "InvalidScalar"
        /\ ~HasSurrogateEscape =>
                /\ res.ok
                /\ res.v = StringV([i \in 1..(Len(doc) - 2) |-> SurPieceOf(doc[i + 1]).ch])
        /\ res.ok => \A i \in 1..Len(res.v.s) :
                        res.v.s[i] \in 0..1114111 /\ ~IsSurrogate(res.v.s[i])

\* "a\uD83D\udc00": a high surrogate followed by a low one, after a
\* character, has been parsed and refused.
C15_Witness ==
    /\ pc = "parsed"
    /\ ~res.ok
    /\ doc = <<(<<34>>), <<97>>, <<92, 117, 68, 56, 51, 68>>, <<92, 117, 100, 99, 48, 48>>, <<34>>>>

----------------------------------------------------------------------------
(* Progress of the parser: texts of a few tokens, well formed or not, and  *)
(* the production calls the parse of a text makes.                         *)

\* The most tokens of a text.
MaxProgTokens == 3

\* [  ]  {  }  []  {}  {"a":  ,"b":  ,  1  space  null  "a"  "  -
ProgTokens ==
    {<<91>>,
     <<93>>,
     <<123>>,
     <<125>>,
     <<91, 93>>,
     <<123, 125>>,
     <<123, 34, 97, 34, 58>>,
     <<44, 34, 98, 34, 58>>,
     <<44>>,
     <<49>>,
     <<32>>,
     <<110, 117, 108, 108>>,
     <<34, 97, 34>>,
     <<34>>,
     <<45>>}

ProgDocs == UNION {[1..k -> ProgTokens] : k \in 0..MaxProgTokens}

InitProg == InitWith(ProgDocs)

SpecProg == InitProg /\ [][Next]_vars

\* The number of calls of value, object, array, string and number that
\* value(s) makes, itself included: one for each call site the run reaches.
RECURSIVE CallsValue(_), CallsObjectLoop(_), CallsArrayLoop(_)
CallsObjectLoop(cur) ==
    LET k == string(eat_whitespace(cur))
    IN  1 + (IF ~k.ok \/ ~StartsWithChar(eat_whitespace(k.rest), COLON) THEN 0
             ELSE CallsValue(Tail(eat_whitespace(k.rest)))
                  + (LET v == value(Tail(eat_whitespace(k.rest)))
                     IN  IF v.ok /\ StartsWithChar(eat_whitespace(v.rest), COMMA)
                            THEN CallsObjectLoop(Tail(eat_whitespace(v.rest)))
                         ELSE 0))

CallsObject(s) ==
    1 + (IF ~StartsWithChar(eat_whitespace(s), LBRACE) THEN 0
         ELSE IF StartsWithChar(eat_whitespace(Tail(eat_whitespace(s))), RBRACE) THEN 0
         ELSE CallsObjectLoop(Tail(eat_whitespace(s))))

CallsArrayLoop(cur) ==
    IF StartsWithChar(eat_whitespace(cur), COMMA) THEN
        CallsValue(Tail(eat_whitespace(cur)))
        + (LET v == value(Tail(eat_whitespace(cur)))
           IN  IF v.ok THEN CallsArrayLoop(v.rest) ELSE 0)
    ELSE 0

CallsArray(s) ==
    1 + (IF ~StartsWithChar(eat_whitespace(s), LBRACKET) THEN 0
         ELSE IF StartsWithChar(eat_whitespace(Tail(eat_whitespace(s))), RBRACKET) THEN 0
         ELSE CallsValue(Tail(eat_whitespace(s)))
              + (LET v == value(Tail(eat_whitespace(s)))
                 IN  IF v.ok THEN CallsArrayLoop(v.rest) ELSE 0))

CallsValue(s) ==
    LET inp == eat_whitespace(s)
    IN  1 + (IF StartsWith(inp, FALSE_LIT) \/ StartsWith(inp, NULL_LIT)
                    \/ StartsWith(inp, TRUE_LIT) THEN 0
             ELSE IF StartsWithChar(inp, LBRACE) THEN CallsObject(inp)
             ELSE IF StartsWithChar(inp, LBRACKET) THEN CallsArray(inp)
             ELSE IF StartsWithChar(inp, QUOTE) THEN 1
             ELSE IF StartsWithChar(inp, MINUS) \/ (inp # <<>> /\ is_ascii_digit(inp[1]))
                THEN 1
             ELSE 0)

\* r, the outcome of a production given s, is a panic or leaves a proper
\* suffix of s.
Progress(r, s) ==
    r.ok => Len(r.rest) < Len(s) /\ r.rest = Drop(s, Len(s) - Len(r.rest))

\* C14: progress and termination of the parser: every production (value,
\* object, array, string, number) that returns successfully returns a proper
\* suffix of the input it was given, whatever suffix of the text it is
\* given; parse ends with a Value or an error; and the production calls of
\* the parse are bounded by the length of the text (two for each character,
\* and the first call of value).
C14_ParserProgress ==
    pc = "parsed" =>
        /\ \A n \in 0..Len(input) :
                /\ Progress(value(Drop(input, n)), Drop(input, n))
                /\ Progress(object(Drop(input, n)), Drop(input, n))
                /\ Progress(array(Drop(input, n)), Drop(input, n))
                /\ Progress(string(Drop(input, n)), Drop(input, n))
                /\ Progress(number(Drop(input, n)), Drop(input, n))
        /\ res.ok \/ res.err # "NotRun"
        /\ CallsValue(input) <= 2 * Len(input) + 1

\* An object with a member has been parsed: value, object, string, value
\* and the member's production have all returned.
C14_Witness ==
    /\ pc = "parsed"
    /\ res.ok
    /\ res.v.t = "Object"
    /\ CallsValue(input) >= 5

====
